---- MODULE Spec2Model ----
(***************************************************************************)
(* Certificate processing pipeline: submission intake, the three stage    *)
(* workers (certificate.ingest, certificate.ocr, certificate.metadata)    *)
(* and the coordinator review routes, over the relational store, the      *)
(* object store and the message bus.                                      *)
(*                                                                        *)
(* The relational store is modelled by its committed rows.  A handler     *)
(* that interleaves with others is split where the code leaves a window:  *)
(* intake between its duplicate check and its insert, the OCR worker      *)
(* between its publish and its commit, a review call between its reads,   *)
(* its flush and its commit.  The consumer supervisor runs the three      *)
(* workers on threads of their own and shuts them down on a signal.       *)
(***************************************************************************)
EXTENDS Integers, Sequences, FiniteSets, TLC

\* ------------------------------------------------------------ bounds
NumStudents == 2
NumFiles == 2
MaxRequests == 2

\* ------------------------------------------------------------ domains
StudentIds == 1..NumStudents
\* enrollment numbers: student i registered under number i; one more is unregistered
Enrollments == 1..(NumStudents + 1)
Files == 1..NumFiles
Requests == 1..MaxRequests

\* SQL NULL / Python None: for a text or a name, and for a number
NULL == <<>>
NONE == -1

\* names are sequences of characters
NameAnaSilva == <<"A", "n", "a", " ", "S", "i", "l", "v", "a">>
NameJoaoLima == <<"J", "o", "a", "o", " ", "L", "i", "m", "a">>
NameLiWu == <<"L", "i", " ", "W", "u">>
NameCarlosLima == <<"C", "a", "r", "l", "o", "s", " ", "L", "i", "m", "a">>

NameAnaMariaSilva == <<"A", "n", "a", " ", "M", ".", " ", "S", "i", "l", "v", "a">>
NameAnaLima == <<"A", "n", "a", " ", "L", "i", "m", "a">>
NameLiMa == <<"L", "i", " ", "M", "a">>
\* "Ana Silva" with a leading blank, a tab and a blank between the words, a period
NameAnaSilvaSpaced == <<" ", "a", "n", "a", "\t", " ", "S", "I", "L", "V", "A", ".">>
NameDot == <<".">>

\* ------------------------------------------------------------ participant validation
UpperToLower ==
    [c \in {"A", "C", "I", "J", "L", "M", "S", "V", "W"} |->
        CASE c = "A" -> "a" [] c = "C" -> "c" [] c = "I" -> "i" [] c = "J" -> "j"
          [] c = "L" -> "l" [] c = "M" -> "m" [] c = "S" -> "s" [] c = "V" -> "v"
          [] c = "W" -> "w"]

\* str.lower() on one character
Lower(c) == IF c \in DOMAIN UpperToLower THEN UpperToLower[c] ELSE c

IsSpace(c) == c \in {" ", "\t", "\n"}

\* \w: letters, digits and the underscore
IsWordChar(c) ==
    c \in {"a", "c", "i", "j", "l", "m", "n", "o", "r", "s", "u", "v", "w",
           "A", "C", "I", "J", "L", "M", "S", "V", "W", "0", "1", "_"}

RECURSIVE SelectChars(_, _)
\* re.sub(r'[^\w\s]', '', ...) with keep(c) deciding what stays
SelectChars(name, i) ==
    IF i > Len(name) THEN <<>>
    ELSE IF IsWordChar(name[i]) \/ IsSpace(name[i])
         THEN <<name[i]>> \o SelectChars(name, i + 1)
         ELSE SelectChars(name, i + 1)

RECURSIVE CollapseSpaces(_, _)
\* re.sub(r'\s+', ' ', ...): every run of whitespace becomes one blank
CollapseSpaces(name, i) ==
    IF i > Len(name) THEN <<>>
    ELSE IF IsSpace(name[i])
         THEN IF i > 1 /\ IsSpace(name[i - 1])
              THEN CollapseSpaces(name, i + 1)
              ELSE <<" ">> \o CollapseSpaces(name, i + 1)
         ELSE <<name[i]>> \o CollapseSpaces(name, i + 1)

RECURSIVE StripLeft(_)
StripLeft(name) ==
    IF name # <<>> /\ IsSpace(Head(name)) THEN StripLeft(Tail(name)) ELSE name

RECURSIVE StripRight(_)
StripRight(name) ==
    IF name # <<>> /\ IsSpace(name[Len(name)])
    THEN StripRight(SubSeq(name, 1, Len(name) - 1))
    ELSE name

\* str.strip()
Strip(name) == StripRight(StripLeft(name))

LowerAll(name) == [i \in 1..Len(name) |-> Lower(name[i])]

normalize_name(name) ==
    Strip(CollapseSpaces(SelectChars(LowerAll(name), 1), 1))

RECURSIVE SplitFrom(_, _, _)
\* str.split(): the set of whitespace-separated tokens
SplitFrom(name, i, cur) ==
    IF i > Len(name) THEN (IF cur = <<>> THEN {} ELSE {cur})
    ELSE IF IsSpace(name[i])
         THEN (IF cur = <<>> THEN {} ELSE {cur}) \cup SplitFrom(name, i + 1, <<>>)
         ELSE SplitFrom(name, i + 1, Append(cur, name[i]))

Parts(name) == SplitFrom(name, 1, <<>>)

\* a single shared token passes, whatever its length
ValidateParticipantNameAnyToken(extracted_participant, student_name) ==
    IF extracted_participant = <<>> \/ student_name = <<>> THEN FALSE
    ELSE normalize_name(extracted_participant) = normalize_name(student_name)
         \/ Parts(normalize_name(extracted_participant))
                \cap Parts(normalize_name(student_name)) # {}

\* _validate_participant_name
ValidateParticipantName(extracted_participant, student_name) ==
    IF extracted_participant = <<>> \/ student_name = <<>> THEN FALSE
    ELSE LET extracted_normalized == normalize_name(extracted_participant)
             student_normalized == normalize_name(student_name)
             common_parts == Parts(extracted_normalized) \cap Parts(student_normalized)
         IN  \/ extracted_normalized = student_normalized
             \/ Cardinality(common_parts) >= 2
             \/ /\ Cardinality(common_parts) = 1
                /\ \A p \in common_parts : Len(p) > 3

StudentName(i) ==
    CASE i = 1 -> NameAnaSilva
      [] i = 2 -> NameJoaoLima
      [] OTHER -> NameLiWu

\* ------------------------------------------------------------ state
VARIABLES
    students,       \* students table: id -> row
    submissions,    \* certificate_submissions table: sequence of rows, id = index
    ocrTexts,       \* certificate_ocr_texts table
    metadataRows,   \* certificate_metadata table
    activities,     \* extracted_activities table
    objectStore,    \* keys present in the bucket
    ingestTopic,    \* log of certificate.ingest
    ocrTopic,       \* log of certificate.ocr
    metadataTopic,  \* log of certificate.metadata
    offsets,        \* per consumer group: messages of its topic already handled;
                    \* redelivered: how often a group was handed a message again
    requests,       \* intake calls: position and locals of each
    ocrTxn,         \* the OCR worker's open transaction, between publish and commit
    reviews,        \* review calls: position and locals of each
    history,        \* what happened to each submission (observation only)
    manager,        \* the ConsumerManager and the position of its main thread
    threads,        \* per stage worker: its thread and its bus subscription
    validation      \* a call of _validate_participant_name: arguments and result

tables == <<students, submissions, ocrTexts, metadataRows, activities>>
bus == <<ingestTopic, ocrTopic, metadataTopic, offsets>>
vars == <<students, submissions, ocrTexts, metadataRows, activities, objectStore,
          ingestTopic, ocrTopic, metadataTopic, offsets, requests, ocrTxn, reviews,
          history, manager, threads, validation>>
supervision == <<manager, threads>>

\* ------------------------------------------------------------ object store
\* hashlib.sha256(...).hexdigest(): distinct contents have distinct digests
CalculateChecksum(file) == <<"sha256", file>>

S3Key(enrollment, checksum) == <<"certificates", enrollment, checksum>>

\* ------------------------------------------------------------ error messages
ErrorMessage(text) ==
    [text |-> text, s3_key |-> NULL, participant |-> NULL, student |-> NULL]

\* no message: None, which update_status treats like the empty string
NoMessage == ErrorMessage("")

MsgPublishFailed == ErrorMessage("Failed to publish to processing queue")

MsgDownloadFailed(key) ==
    [ErrorMessage("Failed to download file from S3: {s3_key}") EXCEPT !.s3_key = key]

MsgMismatch(extracted_participant, student_name) ==
    [ErrorMessage("Certificate participant '{participant}' does not match student '{student}' who submitted the file")
        EXCEPT !.participant = extracted_participant, !.student = student_name]

\* str(e) of the TypeError raised by a call with a keyword the callee does not declare
MsgTypeError(callee, keyword) ==
    ErrorMessage(callee \o "() got an unexpected keyword argument '" \o keyword \o "'")

\* ------------------------------------------------------------ repositories
\* a lookup that ignores the enrollment number
GetAnyStudent(enrollment) == DOMAIN students

\* get_student_by_enrollment
GetStudentByEnrollment(enrollment) ==
    {i \in DOMAIN students : students[i].enrollment_number = enrollment}

SubmissionIds == 1..Len(submissions)

\* a duplicate check that finds nothing
GetByChecksumNothing(student_id, checksum) == {}

\* get_by_checksum
GetByChecksum(student_id, checksum) ==
    {s \in SubmissionIds : /\ submissions[s].student_id = student_id
                           /\ submissions[s].file_checksum = checksum}

\* the column without its unique constraint
NoUniqueConstraint(checksum) == FALSE

\* file_checksum is declared unique=True: an insert of a checksum already stored fails
ChecksumUniqueViolated(checksum) ==
    \E s \in SubmissionIds : submissions[s].file_checksum = checksum

NewSubmission(id, student_id, key, checksum, status) ==
    [id |-> id,
     student_id |-> student_id,
     s3_key |-> key,
     file_checksum |-> checksum,
     status |-> status,
     error_message |-> NoMessage,
     processing_completed_at |-> FALSE]

\* the parameters update_status declares
UpdateStatusParams == {"session", "submission_id", "status", "error_message"}

\* update_status without its write of error_message
UpdateStatusOnly(rows, id, status, error_message) ==
    IF id \in 1..Len(rows) THEN [rows EXCEPT ![id].status = status] ELSE rows

\* update_status: the status, and the error message when one is given
UpdateStatus(rows, id, status, error_message) ==
    IF id \in 1..Len(rows)
    THEN [rows EXCEPT ![id].status = status,
                      ![id].error_message =
                          IF error_message.text # "" THEN error_message ELSE @]
    ELSE rows

\* a Python call raises TypeError when it passes a keyword the callee does not declare
Accepts(params, keywords) == keywords \subseteq params

\* ------------------------------------------------------------ history
Record(event, id) == history' = history \cup {<<event, id>>}

Happened(event, id) == <<event, id>> \in history

\* ------------------------------------------------------------ intake
NoResult == [success |-> FALSE, error |-> "", submission_id |-> 0,
             existing_submission_id |-> 0]

ErrStudentNotFound == "Student not found or invalid"
ErrDuplicate == "Duplicate file detected"
ErrUpload == "Failed to upload file to storage"
ErrQueue == "Failed to queue file for processing"
ErrSubmission == "Submission failed: {exception}"

IdleRequest == [pc |-> "idle", enrollment_number |-> 0, file |-> 0,
                student_id |-> 0, submission_id |-> 0, result |-> NoResult]

Finish(r, res) ==
    requests' = [requests EXCEPT ![r].pc = "done", ![r].result = res]

\* the duplicate found by get_by_checksum(...).first()
FirstOf(ids) == CHOOSE s \in ids : \A t \in ids : s <= t

\* submit_certificate up to the upload: student lookup, duplicate check, upload
SubmitBegin(r, enrollment, file, s3_ok) ==
    /\ requests[r].pc = "idle"
    /\ \A q \in Requests : q < r => requests[q].pc # "idle"
    /\ LET checksum == CalculateChecksum(file)
           found == GetStudentByEnrollment(enrollment)
           student == CHOOSE i \in found : TRUE
           dups == IF found = {} THEN {} ELSE GetByChecksum(student, checksum)
           started == [requests[r] EXCEPT !.enrollment_number = enrollment,
                                          !.file = file]
       IN  IF found = {}
           THEN /\ requests' = [requests EXCEPT ![r] =
                       [started EXCEPT !.pc = "done",
                                       !.result = [NoResult EXCEPT !.error = ErrStudentNotFound]]]
                /\ UNCHANGED objectStore
           ELSE IF dups # {}
           THEN /\ requests' = [requests EXCEPT ![r] =
                       [started EXCEPT !.pc = "done",
                                       !.student_id = student,
                                       !.result = [NoResult EXCEPT
                                           !.error = ErrDuplicate,
                                           !.existing_submission_id = FirstOf(dups)]]]
                /\ UNCHANGED objectStore
           ELSE IF ~s3_ok
           THEN /\ requests' = [requests EXCEPT ![r] =
                       [started EXCEPT !.pc = "done",
                                       !.student_id = student,
                                       !.result = [NoResult EXCEPT !.error = ErrUpload]]]
                /\ UNCHANGED objectStore
           ELSE /\ requests' = [requests EXCEPT ![r] =
                       [started EXCEPT !.pc = "uploaded", !.student_id = student]]
                /\ objectStore' = objectStore \cup {S3Key(enrollment, checksum)}
    /\ UNCHANGED <<tables, bus, ocrTxn, reviews, history>>
    /\ UNCHANGED <<supervision, validation>>

\* the session of submit_certificate left without its commit
CreateSubmissionUncommitted(rows, row) == rows

\* create_submission ('uploaded'), update_status ('queued') and the commit that
\* ends the session
CreateSubmission(rows, row) ==
    UpdateStatus(Append(rows, row), row.id, "queued", NoMessage)

\* the insert of submit_certificate; a checksum already stored makes it raise,
\* which the handler reports
SubmitInsert(r) ==
    /\ requests[r].pc = "uploaded"
    /\ LET checksum == CalculateChecksum(requests[r].file)
           row == NewSubmission(Len(submissions) + 1, requests[r].student_id,
                                S3Key(requests[r].enrollment_number, checksum),
                                checksum, "uploaded")
       IN  IF ChecksumUniqueViolated(checksum)
           THEN /\ Finish(r, [NoResult EXCEPT !.error = ErrSubmission])
                /\ UNCHANGED submissions
           ELSE /\ submissions' = CreateSubmission(submissions, row)
                /\ requests' = [requests EXCEPT ![r].pc = "committed",
                                                ![r].submission_id = row.id]
    /\ UNCHANGED <<students, ocrTexts, metadataRows, activities, objectStore, bus,
                   ocrTxn, reviews, history>>
    /\ UNCHANGED <<supervision, validation>>

IngestMessage(id, key) ==
    [submission_id |-> id, s3_key |-> key, stage |-> "ingest"]

\* publish_certificate_ingest after the commit, with the values the session left
\* in submission_data; when it fails the row is marked failed in a second
\* transaction
SubmitPublish(r, kafka_ok) ==
    /\ requests[r].pc = "committed"
    /\ LET id == requests[r].submission_id
           key == S3Key(requests[r].enrollment_number,
                        CalculateChecksum(requests[r].file))
       IN  IF kafka_ok
           THEN /\ ingestTopic' = Append(ingestTopic, IngestMessage(id, key))
                /\ Finish(r, [NoResult EXCEPT !.success = TRUE, !.submission_id = id])
                /\ UNCHANGED <<submissions, history>>
           ELSE /\ submissions' = UpdateStatus(submissions, id, "failed", MsgPublishFailed)
                /\ Finish(r, [NoResult EXCEPT !.error = ErrQueue, !.submission_id = id])
                /\ Record("fault", id)
                /\ UNCHANGED ingestTopic
    /\ UNCHANGED <<students, ocrTexts, metadataRows, activities, objectStore,
                   ocrTopic, metadataTopic, offsets, ocrTxn, reviews>>
    /\ UNCHANGED <<supervision, validation>>

\* ------------------------------------------------------------ ingest worker
\* a create_ocr_text that declared processing_time_ms as well
CreateOcrTextParamsWithTime ==
    {"session", "submission_id", "raw_text", "ocr_confidence", "processing_time_ms"}

\* the parameters create_ocr_text declares
CreateOcrTextParams == {"session", "submission_id", "raw_text", "ocr_confidence"}

\* the keywords _process_ingest_message passes to create_ocr_text
IngestCreateOcrTextKeywords ==
    {"session", "submission_id", "raw_text", "ocr_confidence", "processing_time_ms"}

MsgOcrFailed == ErrorMessage("{exception raised by process_file}")

\* process_file: it returns the text, or re-raises what the OCR libraries raise;
\* str(e) of an exception raised without arguments (MemoryError) is empty
OcrOutcomes ==
    {[ok |-> TRUE, raised |-> NoMessage],
     [ok |-> FALSE, raised |-> MsgOcrFailed],
     [ok |-> FALSE, raised |-> NoMessage]}

NewOcrText(id, submission_id) == [id |-> id, submission_id |-> submission_id]

OcrMessage(submission_id, ocr_text_id) ==
    [submission_id |-> submission_id, ocr_text_id |-> ocr_text_id,
     stage |-> "ocr_completed"]

Advance(group) == offsets' = [offsets EXCEPT ![group] = @ + 1]

MaxRedeliveries == 2

\* the consumers commit their positions in the background (enable_auto_commit):
\* after a rebalance or a restart before the commit, the group is handed again
\* the message it handled last
Redeliver(group) ==
    /\ offsets[group] > 0
    /\ offsets.redelivered < MaxRedeliveries
    /\ group = "ocr" => ~ocrTxn.open
    /\ offsets' = [offsets EXCEPT ![group] = @ - 1, !.redelivered = @ + 1]
    /\ UNCHANGED <<tables, objectStore, ingestTopic, ocrTopic, metadataTopic, requests,
                   ocrTxn, reviews, history, supervision, validation>>

\* an exception of the ingest worker that leaves the transaction: it is rolled back
IngestFailedRolledBack(processing, id, message) == submissions

\* the except branch of _process_ingest_message: the row is marked failed with the
\* text of the exception, and the transaction commits
IngestFailed(processing, id, message) == UpdateStatus(processing, id, "failed", message)

\* _process_ingest_message, one transaction: the status moves to ocr_processing,
\* then the download, the OCR, the OCR text row and the publication; an
\* exception of these steps is caught and the row marked failed
ProcessIngestMessage(download_ok, ocr, kafka_ok) ==
    /\ offsets.ingest < Len(ingestTopic)
    /\ LET msg == ingestTopic[offsets.ingest + 1]
           id == msg.submission_id
           processing == UpdateStatus(submissions, id, "ocr_processing", NoMessage)
           ocr_text == NewOcrText(Len(ocrTexts) + 1, id)
       IN  IF id \notin SubmissionIds
           THEN UNCHANGED <<submissions, ocrTexts, ocrTopic, history>>
           ELSE IF ~(download_ok /\ msg.s3_key \in objectStore)
           THEN /\ submissions' =
                       UpdateStatus(processing, id, "failed", MsgDownloadFailed(msg.s3_key))
                /\ history' = history \cup {<<"ingest", id>>, <<"fault", id>>}
                /\ UNCHANGED <<ocrTexts, ocrTopic>>
           ELSE IF ~ocr.ok
           THEN /\ submissions' = IngestFailed(processing, id, ocr.raised)
                /\ history' = history \cup {<<"ingest", id>>, <<"fault", id>>,
                                             <<"ingest_raised", id>>}
                /\ UNCHANGED <<ocrTexts, ocrTopic>>
           ELSE IF ~Accepts(CreateOcrTextParams, IngestCreateOcrTextKeywords)
           THEN /\ submissions' =
                       IngestFailed(processing, id,
                                    MsgTypeError("create_ocr_text", "processing_time_ms"))
                /\ history' = history \cup {<<"ingest", id>>, <<"ingest_raised", id>>}
                /\ UNCHANGED <<ocrTexts, ocrTopic>>
           ELSE /\ submissions' = processing
                /\ ocrTexts' = Append(ocrTexts, ocr_text)
                /\ ocrTopic' = IF kafka_ok
                               THEN Append(ocrTopic, OcrMessage(id, ocr_text.id))
                               ELSE ocrTopic
                /\ history' = history \cup {<<"ingest", id>>}
                                      \cup (IF kafka_ok THEN {} ELSE {<<"fault", id>>})
    /\ Advance("ingest")
    /\ UNCHANGED <<students, metadataRows, activities, objectStore, ingestTopic,
                   metadataTopic, requests, ocrTxn, reviews>>
    /\ UNCHANGED <<supervision, validation>>

\* ------------------------------------------------------------ OCR worker
\* the keywords _process_ocr_message passes to update_status when it rejects
OcrFailedKeywords == {"session", "submission_id", "status", "error_message",
                      "update_processing_completed"}

MsgNoneStrip == ErrorMessage("'NoneType' object has no attribute 'strip'")

MsgUpdateStatusTypeError ==
    MsgTypeError("update_status", "update_processing_completed")

\* what extract_fields returns: the five keys, None where the reply had none
\* carga_horaria, dias and paginas stand for the numbers the regular expressions
\* of the workers find in the reply's texts, NONE when they find none
ExtractedData(nome_participante, evento, carga_horaria, dias, paginas) ==
    [nome_participante |-> nome_participante, evento |-> evento,
     carga_horaria |-> carga_horaria, dias |-> dias, paginas |-> paginas]

\* _get_empty_fields: what extract_fields returns when the LLM call fails or its
\* reply cannot be parsed
EmptyFields == ExtractedData(NULL, NULL, NONE, NONE, NONE)

NewMetadata(id, submission_id, data) ==
    [id |-> id, submission_id |-> submission_id,
     participant_name |-> data.nome_participante,
     event_name |-> data.evento,
     numeric_hours |-> data.carga_horaria]

MetadataMessage(submission_id, metadata_id, data) ==
    [submission_id |-> submission_id, metadata_id |-> metadata_id,
     extracted_data |-> data, stage |-> "metadata_extracted"]

NoTxn == [open |-> FALSE, submission_id |-> 0, data |-> ExtractedData(NULL, NULL, NONE, NONE, NONE)]

\* the failure of a step inside the try block: the except clause calls update_status
\* with update_processing_completed; when update_status does not declare it the
\* TypeError leaves the handler and get_db_session rolls the transaction back
OcrFailed(id, processing, metadata_added, message) ==
    IF Accepts(UpdateStatusParams, OcrFailedKeywords)
    THEN /\ submissions' = UpdateStatus(processing, id, "failed", message)
         /\ metadataRows' = metadata_added
    ELSE /\ UNCHANGED <<submissions, metadataRows>>

\* _process_ocr_message up to the publication of certificate.metadata
ProcessOcrMessage(data, kafka_ok) ==
    /\ offsets.ocr < Len(ocrTopic)
    /\ ~ocrTxn.open
    /\ LET msg == ocrTopic[offsets.ocr + 1]
           id == msg.submission_id
           processing == UpdateStatus(submissions, id, "metadata_processing", NoMessage)
           metadata == NewMetadata(Len(metadataRows) + 1, id, data)
           metadata_added == Append(metadataRows, metadata)
           student_name == Strip(students[submissions[id].student_id].name)
           extracted_participant == Strip(data.nome_participante)
       IN  IF id \notin SubmissionIds
           THEN UNCHANGED <<submissions, metadataRows, metadataTopic, ocrTxn, history>>
           ELSE IF data.nome_participante = NULL
           THEN /\ OcrFailed(id, processing, metadata_added, MsgNoneStrip)
                /\ history' = history \cup {<<"ocr", id>>, <<"fault", id>>}
                       \cup (IF data = EmptyFields THEN {<<"empty_fields", id>>} ELSE {})
                /\ UNCHANGED <<metadataTopic, ocrTxn>>
           ELSE IF ~ValidateParticipantName(extracted_participant, student_name)
           THEN /\ IF Accepts(UpdateStatusParams, OcrFailedKeywords)
                   THEN /\ submissions' =
                               UpdateStatus(processing, id, "failed",
                                            MsgMismatch(extracted_participant, student_name))
                        /\ metadataRows' = metadata_added
                   ELSE OcrFailed(id, processing, metadata_added, MsgUpdateStatusTypeError)
                /\ history' = history \cup {<<"ocr", id>>, <<"mismatch", id>>, <<"fault", id>>}
                /\ UNCHANGED <<metadataTopic, ocrTxn>>
           ELSE /\ metadataTopic' = IF kafka_ok
                                    THEN Append(metadataTopic,
                                                MetadataMessage(id, metadata.id, data))
                                    ELSE metadataTopic
                /\ ocrTxn' = [open |-> TRUE, submission_id |-> id, data |-> data]
                /\ history' = history \cup {<<"ocr", id>>}
                                      \cup (IF kafka_ok THEN {} ELSE {<<"fault", id>>})
                /\ UNCHANGED <<submissions, metadataRows>>
    /\ Advance("ocr")
    /\ UNCHANGED <<students, ocrTexts, activities, objectStore, ingestTopic, ocrTopic,
                   requests, reviews>>
    /\ UNCHANGED <<supervision, validation>>

\* the commit that ends _process_ocr_message after the publication
CommitOcrMessage ==
    /\ ocrTxn.open
    /\ LET id == ocrTxn.submission_id
       IN  /\ submissions' = UpdateStatus(submissions, id, "metadata_processing", NoMessage)
           /\ metadataRows' = Append(metadataRows,
                                     NewMetadata(Len(metadataRows) + 1, id, ocrTxn.data))
    /\ ocrTxn' = NoTxn
    /\ UNCHANGED <<students, ocrTexts, activities, objectStore, bus, requests, reviews,
                   history>>
    /\ UNCHANGED <<supervision, validation>>

\* ------------------------------------------------------------ metadata worker
\* activity_categories: policy rows; the table constrains none of the columns, so
\* a row may award more hours than its max_total_hours
Catalog ==
    [c \in 1..6 |->
        CASE c = 1 -> [id |-> 1, calculation_type |-> "fixed_per_activity",
                       hours_awarded |-> 10, input_quantity |-> 1, output_hours |-> 10,
                       max_total_hours |-> 20]
          [] c = 2 -> [id |-> 2, calculation_type |-> "ratio_hours",
                       hours_awarded |-> 0, input_quantity |-> 1, output_hours |-> 1,
                       max_total_hours |-> 60]
          [] c = 3 -> [id |-> 3, calculation_type |-> "ratio_days",
                       hours_awarded |-> 0, input_quantity |-> 1, output_hours |-> 8,
                       max_total_hours |-> 40]
          [] c = 4 -> [id |-> 4, calculation_type |-> "ratio_pages",
                       hours_awarded |-> 0, input_quantity |-> 10, output_hours |-> 5,
                       max_total_hours |-> 30]
          [] c = 5 -> [id |-> 5, calculation_type |-> "fixed_per_semester",
                       hours_awarded |-> 30, input_quantity |-> 1, output_hours |-> 30,
                       max_total_hours |-> 60]
          [] c = 6 -> [id |-> 6, calculation_type |-> "fixed_per_activity",
                       hours_awarded |-> 30, input_quantity |-> 1, output_hours |-> 30,
                       max_total_hours |-> 20]]

Min(a, b) == IF a <= b THEN a ELSE b

\* _calculate_hours
CalculateHours(category_data, numeric_hours, extracted_data) ==
    LET calculation_type == category_data.calculation_type
        ratio_of(n) == (n * category_data.output_hours) \div category_data.input_quantity
    IN  CASE calculation_type \in {"fixed_per_semester", "fixed_per_activity"} ->
                 category_data.hours_awarded
          [] calculation_type = "ratio_hours" ->
                 Min(ratio_of(numeric_hours), category_data.max_total_hours)
          [] calculation_type = "ratio_days" ->
                 IF extracted_data.dias # NONE /\ extracted_data.dias # 0
                 THEN Min(extracted_data.dias * category_data.output_hours,
                          category_data.max_total_hours)
                 ELSE Min(category_data.output_hours, category_data.max_total_hours)
          [] calculation_type = "ratio_pages" ->
                 IF extracted_data.paginas # NONE /\ extracted_data.paginas # 0
                 THEN Min(ratio_of(extracted_data.paginas), category_data.max_total_hours)
                 ELSE Min(category_data.output_hours, category_data.max_total_hours)
          [] OTHER -> 0

\* create_activity as _save_extracted_activity calls it: student_id and metadata_id
\* are not passed and stay NULL
NewActivity(id, submission_id, category_id, calculated_hours) ==
    [id |-> id, submission_id |-> submission_id, student_id |-> NONE,
     metadata_id |-> NONE, category_id |-> category_id,
     calculated_hours |-> calculated_hours, review_status |-> "pending_review",
     override_category_id |-> NONE, override_hours |-> NONE,
     override_reasoning |-> FALSE, final_category_id |-> NONE, final_hours |-> NONE]

\* the keywords _process_metadata_message passes to update_status after
\* categorize_activity has returned
MetadataDoneKeywords == {"session", "submission_id", "status", "error_message",
                         "update_processing_completed"}

\* the keywords its except clause passes
MetadataExceptKeywords == {"session", "submission_id", "status", "error_message"}

\* categorize_activity: the error of the result, "" on success
CategorizeError(extracted_data, category_id) ==
    IF extracted_data.evento = NULL THEN "Missing evento information"
    ELSE IF extracted_data.carga_horaria = NONE THEN "Could not extract numeric hours"
    ELSE IF category_id = NONE \/ category_id = 0 \/ category_id \notin DOMAIN Catalog
         THEN "No matching category found by LLM"
    ELSE ""

\* _process_metadata_message: the activity is committed by categorize_activity in
\* a session of its own, the status by the handler's session
ProcessMetadataMessage(category_id) ==
    /\ offsets.metadata < Len(metadataTopic)
    /\ LET msg == metadataTopic[offsets.metadata + 1]
           id == msg.submission_id
           data == msg.extracted_data
           processing ==
               UpdateStatus(submissions, id, "categorization_processing", NoMessage)
           error == CategorizeError(data, category_id)
           activity == NewActivity(Len(activities) + 1, id, category_id,
                                   CalculateHours(Catalog[category_id],
                                                  data.carga_horaria, data))
           after_try == IF ~Accepts(UpdateStatusParams, MetadataDoneKeywords)
                        THEN MsgUpdateStatusTypeError
                        ELSE NoMessage
       IN  /\ ~(ocrTxn.open /\ ocrTxn.submission_id = id)
           /\ IF id \notin SubmissionIds
              THEN UNCHANGED <<submissions, activities, history>>
              ELSE /\ activities' = IF error = "" THEN Append(activities, activity)
                                    ELSE activities
                   /\ submissions' =
                        IF after_try = NoMessage
                        THEN IF error = ""
                             THEN UpdateStatus(processing, id, "pending_review", NoMessage)
                             ELSE UpdateStatus(processing, id, "failed", ErrorMessage(error))
                        ELSE IF Accepts(UpdateStatusParams, MetadataExceptKeywords)
                             THEN UpdateStatus(processing, id, "failed", after_try)
                             ELSE submissions
                   /\ history' = history \cup {<<"metadata", id>>}
                        \cup (IF error = "" THEN {<<"categorized", id>>} ELSE {<<"fault", id>>})
                        \cup (IF error = "No matching category found by LLM"
                              THEN {<<"no_category", id>>} ELSE {})
    /\ Advance("metadata")
    /\ UNCHANGED <<students, ocrTexts, metadataRows, objectStore, ingestTopic, ocrTopic,
                   metadataTopic, requests, ocrTxn, reviews>>
    /\ UNCHANGED <<supervision, validation>>

\* ------------------------------------------------------------ review routes
MaxReviews == 2
Reviews == 1..MaxReviews

NoReview == [success |-> FALSE, error |-> "", category_id |-> NONE]

\* loaded: the activity row as the call's session read it
IdleReview == [pc |-> "idle", kind |-> "", submission_id |-> 0, final_hours |-> NONE,
               final_category_id |-> NONE, override_reason |-> FALSE,
               loaded |-> NewActivity(0, 0, NONE, NONE),
               total_read |-> 0, result |-> NoReview]

ReviewError(text) == [NoReview EXCEPT !.error = text]

ActivitiesOf(submission_id) ==
    {a \in 1..Len(activities) : activities[a].submission_id = submission_id}

\* approve_submission without its check of override_reason
ApproveErrorReasonUnchecked(s, final_hours, final_category_id, override_reason) ==
    IF s \notin SubmissionIds THEN ReviewError("Submission not found")
    ELSE IF submissions[s].status # "pending_review"
         THEN ReviewError("Cannot approve submission with status: {status}")
    ELSE IF ActivitiesOf(s) = {}
         THEN ReviewError("No extracted activity found for this submission")
    ELSE IF final_hours # NONE /\ final_hours < 0
         THEN ReviewError("final_hours must be a valid positive number")
    ELSE IF final_category_id # NONE /\ final_category_id \notin DOMAIN Catalog
         THEN [ReviewError("Category with ID {final_category_id} does not exist")
                  EXCEPT !.category_id = final_category_id]
    ELSE NoReview

\* approve_submission without its check that the override category exists
ApproveErrorCategoryUnchecked(s, final_hours, final_category_id, override_reason) ==
    IF (final_hours # NONE \/ final_category_id # NONE) /\ ~override_reason
    THEN ReviewError("override_reason is required when overriding hours or category")
    ELSE IF s \notin SubmissionIds THEN ReviewError("Submission not found")
    ELSE IF submissions[s].status # "pending_review"
         THEN ReviewError("Cannot approve submission with status: {status}")
    ELSE IF ActivitiesOf(s) = {}
         THEN ReviewError("No extracted activity found for this submission")
    ELSE IF final_hours # NONE /\ final_hours < 0
         THEN ReviewError("final_hours must be a valid positive number")
    ELSE NoReview

\* the checks of approve_submission, in the order of the code; "" when all pass
ApproveError(s, final_hours, final_category_id, override_reason) ==
    IF (final_hours # NONE \/ final_category_id # NONE) /\ ~override_reason
    THEN ReviewError("override_reason is required when overriding hours or category")
    ELSE IF s \notin SubmissionIds THEN ReviewError("Submission not found")
    ELSE IF submissions[s].status # "pending_review"
         THEN ReviewError("Cannot approve submission with status: {status}")
    ELSE IF ActivitiesOf(s) = {}
         THEN ReviewError("No extracted activity found for this submission")
    ELSE IF final_hours # NONE /\ final_hours < 0
         THEN ReviewError("final_hours must be a valid positive number")
    ELSE IF final_category_id # NONE /\ final_category_id \notin DOMAIN Catalog
         THEN [ReviewError("Category with ID {final_category_id} does not exist")
                  EXCEPT !.category_id = final_category_id]
    ELSE NoReview

\* reject_submission without its check of the submission's status
RejectErrorStatusUnchecked(s, has_reason) ==
    IF ~has_reason THEN ReviewError("Rejection reason is required")
    ELSE IF s \notin SubmissionIds THEN ReviewError("Submission not found")
    ELSE NoReview

\* the checks of reject_submission
RejectError(s, has_reason) ==
    IF ~has_reason THEN ReviewError("Rejection reason is required")
    ELSE IF s \notin SubmissionIds THEN ReviewError("Submission not found")
    ELSE IF submissions[s].status # "pending_review"
         THEN ReviewError("Cannot reject submission with status: {status}")
    ELSE NoReview

\* a review call up to its last read of the submission and the activity
ReviewBegin(v, kind, s, final_hours, final_category_id, reason) ==
    /\ reviews[v].pc = "idle"
    /\ \A w \in Reviews : w < v => reviews[w].pc # "idle"
    /\ kind = "reject" => final_hours = NONE /\ final_category_id = NONE
    /\ LET error == IF kind = "approve"
                    THEN ApproveError(s, final_hours, final_category_id, reason)
                    ELSE RejectError(s, reason)
           call == [IdleReview EXCEPT !.kind = kind, !.submission_id = s,
                                      !.final_hours = final_hours,
                                      !.final_category_id = final_category_id,
                                      !.override_reason = reason,
                                      !.loaded = IF error = NoReview /\ ActivitiesOf(s) # {}
                                                 THEN activities[FirstOf(ActivitiesOf(s))]
                                                 ELSE @]
       IN  reviews' = [reviews EXCEPT ![v] =
                          IF error = NoReview
                          THEN [call EXCEPT !.pc = "read"]
                          ELSE [call EXCEPT !.pc = "done", !.result = error]]
    /\ UNCHANGED <<tables, objectStore, bus, requests, ocrTxn, history>>
    /\ UNCHANGED <<supervision, validation>>

\* the flush of the call's writes takes the row locks of the submission and its
\* activity: it waits while another call holds them; approve then loads the student
ReviewFlush(v) ==
    /\ reviews[v].pc = "read"
    /\ \A w \in Reviews :
          reviews[w].pc = "flushed" => reviews[w].submission_id # reviews[v].submission_id
    /\ reviews' = [reviews EXCEPT
          ![v].pc = "flushed",
          ![v].total_read =
              students[submissions[reviews[v].submission_id].student_id].total_approved_hours]
    /\ UNCHANGED <<tables, objectStore, bus, requests, ocrTxn, history>>
    /\ UNCHANGED <<supervision, validation>>

\* the UPDATE the session emits for a row: the columns whose value the call changed
\* from what it had loaded; the other columns keep what is committed
WriteChanged(committed, loaded, updated) ==
    [f \in DOMAIN committed |-> IF updated[f] # loaded[f] THEN updated[f] ELSE committed[f]]

\* the assignments of approve_submission with the final values taken from the
\* request alone
ApprovedActivityFromBodyOnly(activity, final_hours, final_category_id, override_reason) ==
    [activity EXCEPT
        !.override_category_id = final_category_id,
        !.override_hours = final_hours,
        !.override_reasoning = override_reason,
        !.final_category_id = final_category_id,
        !.final_hours = final_hours,
        !.review_status = "approved"]

\* the values approve_submission assigns to the activity it loaded
ApprovedActivity(activity, final_hours, final_category_id, override_reason) ==
    [activity EXCEPT
        !.override_category_id = final_category_id,
        !.override_hours = final_hours,
        !.override_reasoning = override_reason,
        !.final_category_id =
            IF final_category_id # NONE THEN final_category_id ELSE activity.category_id,
        !.final_hours =
            IF final_hours # NONE THEN final_hours ELSE activity.calculated_hours,
        !.review_status = "approved"]

\* reject_activity assigns status, rejected_at and rejection_reason, none of which
\* is a column of extracted_activities: the row is written back unchanged
RejectedActivity(activity) == activity

\* the commit of the call
ReviewCommit(v) ==
    /\ reviews[v].pc = "flushed"
    /\ LET call == reviews[v]
           s == call.submission_id
           a == FirstOf(ActivitiesOf(s))
           student == submissions[s].student_id
           approved == ApprovedActivity(call.loaded, call.final_hours,
                                        call.final_category_id, call.override_reason)
       IN  IF call.kind = "approve"
           THEN /\ activities' = [activities EXCEPT ![a] =
                                      WriteChanged(activities[a], call.loaded, approved)]
                /\ submissions' = UpdateStatus(submissions, s, "approved", NoMessage)
                /\ students' =
                     IF approved.final_hours # NONE /\ approved.final_hours # 0
                     THEN [students EXCEPT ![student].total_approved_hours =
                              call.total_read + approved.final_hours]
                     ELSE students
                /\ history' = history \cup {<<"approved", s>>}
           ELSE /\ activities' =
                     IF ActivitiesOf(s) = {} THEN activities
                     ELSE [activities EXCEPT ![a] = RejectedActivity(activities[a])]
                /\ submissions' = [submissions EXCEPT ![s].status = "rejected"]
                /\ history' = history \cup {<<"rejected", s>>}
                /\ UNCHANGED students
    /\ reviews' = [reviews EXCEPT ![v].pc = "done",
                                  ![v].result = [NoReview EXCEPT !.success = TRUE]]
    /\ UNCHANGED <<ocrTexts, metadataRows, objectStore, bus, requests, ocrTxn>>
    /\ UNCHANGED <<supervision, validation>>

\* ------------------------------------------------------------ consumer supervisor
MaxSignals == 2

\* the stage workers, named by their consumer groups
Workers == {"ingest", "ocr", "metadata"}

\* ConsumerManager(): no consumers yet, no executor, the event clear
\* pc is the position of the main thread: constructed, waiting (in as_completed),
\* start_except (the except branch of start), main_finally, exited
NewManager ==
    [pc |-> "constructed", executor |-> FALSE, shutdown_event |-> FALSE,
     signals |-> 0, shutdown_calls |-> 0, last_shutdown |-> ""]

\* state: absent, running, returned, raised; consumer: absent, none (the
\* KafkaConsumer could not be built), open, closed
NewThread == [state |-> "absent", consumer |-> "absent"]

Terminated(w) == threads[w].state \in {"returned", "raised"}

\* start: _create_consumers, the executor, one _run_consumer task per consumer;
\* an exception of _create_consumers leads to the except branch
ManagerStart(create_ok, init_ok) ==
    /\ manager.pc = "constructed"
    /\ IF create_ok
       THEN /\ threads' = [w \in Workers |->
                              [NewThread EXCEPT
                                  !.state = "running",
                                  !.consumer = IF init_ok[w] THEN "open" ELSE "none"]]
            /\ manager' = [manager EXCEPT !.pc = "waiting", !.executor = TRUE]
       ELSE /\ manager' = [manager EXCEPT !.pc = "start_except"]
            /\ UNCHANGED threads
    /\ UNCHANGED <<tables, objectStore, bus, requests, ocrTxn, reviews, history, validation>>

\* a wait that ends with the first future that completes
StartLoopDoneAtFirst == \E w \in Workers : Terminated(w)

\* the loop over as_completed(futures) ends when every future has completed; a
\* future that raised is logged and the loop continues
StartLoopDone == \A w \in Workers : Terminated(w)

\* start returns to main, whose finally branch follows
StartReturns ==
    /\ manager.pc = "waiting"
    /\ StartLoopDone
    /\ manager' = [manager EXCEPT !.pc = "main_finally"]
    /\ UNCHANGED <<tables, objectStore, bus, requests, ocrTxn, reviews, history, validation, threads>>

\* shutdown closes the KafkaConsumer of every consumer that has one
CloseConsumers(t) ==
    [w \in Workers |->
        IF t[w].consumer = "open" THEN [t[w] EXCEPT !.consumer = "closed"] ELSE t[w]]

\* shutdown ends with executor.shutdown(wait=True, timeout=30) when there is an
\* executor; ThreadPoolExecutor.shutdown declares no timeout: the call raises
ShutdownOutcome(m) == IF m.executor THEN "raised" ELSE "returned"

\* shutdown: the event, the consumers, the executor
Shutdown(m) ==
    [m EXCEPT !.shutdown_event = TRUE,
              !.shutdown_calls = @ + 1,
              !.last_shutdown = ShutdownOutcome(m)]

\* the calls of shutdown in the except branch of start, which re-raises into
\* main (sys.exit, then finally), and in the finally branch of main
ManagerShutdown ==
    /\ manager.pc \in {"start_except", "main_finally"}
    /\ threads' = CloseConsumers(threads)
    /\ manager' = [Shutdown(manager) EXCEPT
                      !.pc = IF manager.pc = "start_except" THEN "main_finally"
                             ELSE "exited"]
    /\ UNCHANGED <<tables, objectStore, bus, requests, ocrTxn, reviews, history, validation>>

\* SIGINT or SIGTERM: _signal_handler runs shutdown on the main thread; what it
\* raises propagates from where the main thread was
SignalHandler ==
    /\ manager.pc # "exited"
    /\ manager.signals < MaxSignals
    /\ threads' = CloseConsumers(threads)
    /\ manager' = [Shutdown(manager) EXCEPT
                      !.signals = @ + 1,
                      !.pc = IF ShutdownOutcome(manager) = "returned" THEN manager.pc
                             ELSE CASE manager.pc = "waiting" -> "start_except"
                                    [] manager.pc = "start_except" -> "main_finally"
                                    [] manager.pc = "main_finally" -> "exited"
                                    [] OTHER -> manager.pc]
    /\ UNCHANGED <<tables, objectStore, bus, requests, ocrTxn, reviews, history, validation>>

\* the worker's thread is in the loop of process_messages on an open subscription
Consuming(w) == threads[w].state = "running" /\ threads[w].consumer = "open"

\* _run_consumer ends: process_messages returns at once without a KafkaConsumer;
\* otherwise its loop ends when the iteration stops or raises (the subscription
\* was closed, the broker failed), the finally branch closes the consumer, and
\* an exception of that close is re-raised by _run_consumer
RunConsumerEnds(w, close_ok) ==
    /\ threads[w].state = "running"
    /\ w = "ocr" => ~ocrTxn.open
    /\ threads' = [threads EXCEPT ![w] =
          IF threads[w].consumer = "none"
          THEN [@ EXCEPT !.state = "returned"]
          ELSE [@ EXCEPT !.state = IF close_ok THEN "returned" ELSE "raised",
                         !.consumer = "closed"]]
    /\ UNCHANGED <<tables, objectStore, bus, requests, ocrTxn, reviews, history, validation, manager>>

\* ------------------------------------------------------------ validation calls
NoValidation ==
    [pc |-> "idle", extracted_participant |-> NULL, student_name |-> NULL,
     result |-> FALSE]

\* the names a call may be given: none, punctuation alone, and names that differ
\* in case, blanks, punctuation and in the words they share
NameInputs ==
    {NULL, NameDot, NameAnaSilva, NameAnaSilvaSpaced, NameAnaMariaSilva, NameAnaLima,
     NameJoaoLima, NameCarlosLima, NameLiWu, NameLiMa}

\* a call of _validate_participant_name returns
ValidateName ==
    /\ validation.pc = "called"
    /\ validation' = [validation EXCEPT
          !.pc = "returned",
          !.result = ValidateParticipantName(validation.extracted_participant,
                                             validation.student_name)]
    /\ UNCHANGED <<tables, objectStore, bus, requests, ocrTxn, reviews, history,
                   supervision>>

\* ------------------------------------------------------------ inputs
EventoX == <<"X">>

\* replies of the field-extraction LLM call, as extract_fields returns them
ExtractionReplies ==
    {ExtractedData(NameAnaSilva, EventoX, 40, NONE, NONE),
     ExtractedData(NameAnaMariaSilva, EventoX, 100, 3, NONE),
     ExtractedData(NameAnaSilva, EventoX, 8, NONE, 250),
     ExtractedData(NameAnaSilva, EventoX, NONE, NONE, NONE),
     ExtractedData(NameCarlosLima, EventoX, 40, NONE, NONE),
     EmptyFields}

\* category_id of the categorization reply: none, in the catalog, not in the catalog
CategoryReplies == {NONE} \cup DOMAIN Catalog \cup {99}

ReviewHours == {NONE, 30, -5}
ReviewCategories == {NONE, 1, 99}

\* ------------------------------------------------------------ initial stores
\* The store and the bus outlive the processes.  Intake and the ingest worker start
\* on an empty store.  The OCR and metadata workers start on a store whose
\* submissions have been through the ingest stage (OCR text stored, certificate.ocr
\* message waiting), the review routes on one whose submissions wait for review.
\* The rows are those the constructors of the code build, at the status of that
\* stage; the submissions belong to the first student.
NumSeeded == 2

SeedSubmission(id, student_id, file, status) ==
    [NewSubmission(id, student_id, S3Key(student_id, CalculateChecksum(file)),
                   CalculateChecksum(file), "uploaded") EXCEPT !.status = status]

SeedData == ExtractedData(NameAnaSilva, EventoX, 40, NONE, NONE)

SeedActivity(id) ==
    NewActivity(id, id, 2, CalculateHours(Catalog[2], SeedData.carga_horaria, SeedData))

\* the body that supplies the values the categorization had calculated
ExplicitDefaults ==
    [final_hours |-> SeedActivity(1).calculated_hours,
     final_category_id |-> SeedActivity(1).category_id,
     override_reason |-> TRUE]

\* bodies of the approve requests: every combination of valid values with and
\* without a reason, each invalid value on its own with a reason, and the body
\* that repeats the calculated values
ApproveBodies ==
    {b \in [final_hours : ReviewHours, final_category_id : ReviewCategories,
            override_reason : BOOLEAN] :
        LET bad_hours == b.final_hours # NONE /\ b.final_hours < 0
            bad_category == b.final_category_id \notin (DOMAIN Catalog \cup {NONE})
        IN  /\ bad_hours => (b.final_category_id = NONE /\ b.override_reason)
            /\ bad_category => (b.final_hours = NONE /\ b.override_reason)}
    \cup {ExplicitDefaults}

InitCommon ==
    /\ students = [i \in StudentIds |->
                      [id |-> i, enrollment_number |-> i, name |-> StudentName(i),
                       total_approved_hours |-> 0]]
    /\ requests = [r \in Requests |-> IdleRequest]
    /\ reviews = [v \in Reviews |-> IdleReview]
    /\ ocrTxn = NoTxn
    /\ manager = NewManager
    /\ threads = [w \in Workers |-> NewThread]

IntakeInit ==
    /\ InitCommon
    /\ validation = NoValidation
    /\ submissions = <<>>
    /\ ocrTexts = <<>>
    /\ metadataRows = <<>>
    /\ activities = <<>>
    /\ objectStore = {}
    /\ ingestTopic = <<>>
    /\ ocrTopic = <<>>
    /\ metadataTopic = <<>>
    /\ offsets = [ingest |-> 0, ocr |-> 0, metadata |-> 0, redelivered |-> 0]
    /\ history = {}

StageInit ==
    /\ InitCommon
    /\ validation = NoValidation
    /\ submissions = [s \in 1..NumSeeded |-> SeedSubmission(s, 1, s, "ocr_processing")]
    /\ ocrTexts = [s \in 1..NumSeeded |-> NewOcrText(s, s)]
    /\ metadataRows = <<>>
    /\ activities = <<>>
    /\ objectStore = {submissions[s].s3_key : s \in 1..NumSeeded}
    /\ ingestTopic = [s \in 1..NumSeeded |-> IngestMessage(s, submissions[s].s3_key)]
    /\ ocrTopic = [s \in 1..NumSeeded |-> OcrMessage(s, s)]
    /\ metadataTopic = <<>>
    /\ offsets = [ingest |-> NumSeeded, ocr |-> 0, metadata |-> 0, redelivered |-> 0]
    /\ history = {<<"ingest", s>> : s \in 1..NumSeeded}

ReviewInit ==
    /\ InitCommon
    /\ validation = NoValidation
    /\ submissions = [s \in 1..NumSeeded |-> SeedSubmission(s, 1, s, "pending_review")]
    /\ ocrTexts = [s \in 1..NumSeeded |-> NewOcrText(s, s)]
    /\ metadataRows = [s \in 1..NumSeeded |-> NewMetadata(s, s, SeedData)]
    /\ activities = [s \in 1..NumSeeded |-> SeedActivity(s)]
    /\ objectStore = {submissions[s].s3_key : s \in 1..NumSeeded}
    /\ ingestTopic = [s \in 1..NumSeeded |-> IngestMessage(s, submissions[s].s3_key)]
    /\ ocrTopic = [s \in 1..NumSeeded |-> OcrMessage(s, s)]
    /\ metadataTopic = [s \in 1..NumSeeded |-> MetadataMessage(s, s, SeedData)]
    /\ offsets = [ingest |-> NumSeeded, ocr |-> NumSeeded, metadata |-> NumSeeded, redelivered |-> 0]
    /\ history = {<<e, s>> : e \in {"ingest", "ocr", "metadata"}, s \in 1..NumSeeded}

\* the supervisor starts on a store with work for its workers: submission 1 has
\* been through the ingest stage and its certificate.ocr message waits,
\* submission 2 is queued and its certificate.ingest message waits
SupervisorInit ==
    /\ InitCommon
    /\ validation = NoValidation
    /\ submissions = <<SeedSubmission(1, 1, 1, "ocr_processing"),
                       SeedSubmission(2, 1, 2, "queued")>>
    /\ ocrTexts = <<NewOcrText(1, 1)>>
    /\ metadataRows = <<>>
    /\ activities = <<>>
    /\ objectStore = {submissions[s].s3_key : s \in DOMAIN submissions}
    /\ ingestTopic = [s \in DOMAIN submissions |-> IngestMessage(s, submissions[s].s3_key)]
    /\ ocrTopic = <<OcrMessage(1, 1)>>
    /\ metadataTopic = <<>>
    /\ offsets = [ingest |-> 1, ocr |-> 0, metadata |-> 0, redelivered |-> 0]
    /\ history = {<<"ingest", 1>>}

\* the ingest worker starts on a store where submission 1 has been through the
\* ingest stage and the certificate.ingest messages of the others wait
RedeliveryInit ==
    /\ InitCommon
    /\ validation = NoValidation
    /\ submissions = [s \in 1..(NumSeeded + 1) |->
                         SeedSubmission(s, 1, s, IF s = 1 THEN "ocr_processing" ELSE "queued")]
    /\ ocrTexts = <<NewOcrText(1, 1)>>
    /\ metadataRows = <<>>
    /\ activities = <<>>
    /\ objectStore = {submissions[s].s3_key : s \in DOMAIN submissions}
    /\ ingestTopic = [s \in DOMAIN submissions |-> IngestMessage(s, submissions[s].s3_key)]
    /\ ocrTopic = <<OcrMessage(1, 1)>>
    /\ metadataTopic = <<>>
    /\ offsets = [ingest |-> 1, ocr |-> 0, metadata |-> 0, redelivered |-> 0]
    /\ history = {<<"ingest", 1>>}

\* calls of _validate_participant_name on every pair of the names
ValidationInit ==
    /\ InitCommon
    /\ validation \in [pc : {"called"}, extracted_participant : NameInputs,
                        student_name : NameInputs, result : {FALSE}]
    /\ submissions = <<>>
    /\ ocrTexts = <<>>
    /\ metadataRows = <<>>
    /\ activities = <<>>
    /\ objectStore = {}
    /\ ingestTopic = <<>>
    /\ ocrTopic = <<>>
    /\ metadataTopic = <<>>
    /\ offsets = [ingest |-> 0, ocr |-> 0, metadata |-> 0, redelivered |-> 0]
    /\ history = {}

\* ------------------------------------------------------------ specifications
\* intake calls running concurrently with the ingest worker
IntakeNext ==
    \/ \E r \in Requests, e \in Enrollments, f \in Files, ok \in BOOLEAN :
          SubmitBegin(r, e, f, ok)
    \/ \E r \in Requests : SubmitInsert(r)
    \/ \E r \in Requests, ok \in BOOLEAN : SubmitPublish(r, ok)
    \/ \E download_ok, kafka_ok \in BOOLEAN, ocr \in OcrOutcomes :
          ProcessIngestMessage(download_ok, ocr, kafka_ok)

IntakeSpec == IntakeInit /\ [][IntakeNext]_vars

\* the OCR worker and the metadata worker
StageNext ==
    \/ \E data \in ExtractionReplies, kafka_ok \in BOOLEAN :
          ProcessOcrMessage(data, kafka_ok)
    \/ CommitOcrMessage
    \/ \E category_id \in CategoryReplies : ProcessMetadataMessage(category_id)

StageSpec == StageInit /\ [][StageNext]_vars

\* review calls running concurrently
ReviewNext ==
    \/ \E v \in Reviews, kind \in {"approve", "reject"},
          s \in 1..(Len(submissions) + 1), body \in ApproveBodies :
          ReviewBegin(v, kind, s, body.final_hours, body.final_category_id,
                      body.override_reason)
    \/ \E v \in Reviews : ReviewFlush(v)
    \/ \E v \in Reviews : ReviewCommit(v)

ReviewSpec == ReviewInit /\ [][ReviewNext]_vars

\* the supervisor, its signals and the three workers on their threads
SupervisorNext ==
    \/ \E create_ok \in BOOLEAN, init_ok \in [Workers -> BOOLEAN] :
          ManagerStart(create_ok, init_ok)
    \/ StartReturns
    \/ ManagerShutdown
    \/ SignalHandler
    \/ \E w \in Workers, close_ok \in BOOLEAN : RunConsumerEnds(w, close_ok)
    \/ /\ Consuming("ingest")
       /\ \E download_ok, kafka_ok \in BOOLEAN, ocr \in OcrOutcomes :
             ProcessIngestMessage(download_ok, ocr, kafka_ok)
    \/ /\ Consuming("ocr")
       /\ \E data \in ExtractionReplies, kafka_ok \in BOOLEAN :
             ProcessOcrMessage(data, kafka_ok)
    \/ /\ threads["ocr"].state = "running"
       /\ CommitOcrMessage
    \/ /\ Consuming("metadata")
       /\ \E category_id \in CategoryReplies : ProcessMetadataMessage(category_id)

SupervisorSpec == SupervisorInit /\ [][SupervisorNext]_vars

\* the ingest worker, handed messages again
RedeliveryNext ==
    \/ \E download_ok, kafka_ok \in BOOLEAN, ocr \in OcrOutcomes :
          ProcessIngestMessage(download_ok, ocr, kafka_ok)
    \/ Redeliver("ingest")

RedeliverySpec == RedeliveryInit /\ [][RedeliveryNext]_vars

ValidationNext == ValidateName

ValidationSpec == ValidationInit /\ [][ValidationNext]_vars

\* ------------------------------------------------------------ properties
\* C1: in every reachable state, concurrent intake calls included, no two
\* submission rows of the same student carry the same file checksum
SubmissionChecksumsDistinctPerStudent ==
    \A s, t \in SubmissionIds :
        (s # t /\ submissions[s].student_id = submissions[t].student_id)
            => submissions[s].file_checksum # submissions[t].file_checksum

\* two calls of one student with the same bytes both passed the duplicate check: one
\* holds the row, the other's insert was refused
ConcurrentSameFileOneRow ==
    \E r, q \in Requests :
        /\ r # q
        /\ requests[r].student_id # 0
        /\ requests[r].student_id = requests[q].student_id
        /\ requests[r].file = requests[q].file
        /\ requests[r].submission_id \in SubmissionIds
        /\ requests[q].result.error = ErrSubmission

PipelineStatuses ==
    <<"uploaded", "queued", "ocr_processing", "metadata_processing",
      "categorization_processing", "pending_review">>

PermittedTransitions ==
    {<<PipelineStatuses[i], PipelineStatuses[i + 1]>> : i \in 1..(Len(PipelineStatuses) - 1)}
    \cup {<<PipelineStatuses[i], "failed">> : i \in 1..Len(PipelineStatuses)}
    \cup {<<"pending_review", "approved">>, <<"pending_review", "rejected">>}

\* C2: every change of a submission's committed status is a permitted transition:
\* one stage forward, pending_review to approved or rejected, or a pipeline status
\* to failed
StatusChangesArePermitted ==
    [][\A s \in SubmissionIds :
          submissions'[s].status # submissions[s].status
              => <<submissions[s].status, submissions'[s].status>> \in PermittedTransitions]_vars

TerminalStatuses == {"failed", "approved", "rejected"}

\* C3: once a submission's status is failed, approved or rejected, no step changes it
TerminalStatusIsFinal ==
    [][\A s \in SubmissionIds :
          submissions[s].status \in TerminalStatuses
              => submissions'[s].status = submissions[s].status]_vars

\* C4: a submission whose upload, publication, download and OCR all succeeded does
\* not end failed once the ingest worker has handled its message
HappyPathNotFailed ==
    \A s \in SubmissionIds :
        (Happened("ingest", s) /\ ~Happened("fault", s))
            => submissions[s].status # "failed"

RECURSIVE SumFinalHours(_)
SumFinalHours(ids) ==
    IF ids = {} THEN 0
    ELSE LET a == CHOOSE x \in ids : TRUE
         IN  activities[a].final_hours + SumFinalHours(ids \ {a})

ApprovedActivitiesOf(student_id) ==
    {a \in 1..Len(activities) : /\ activities[a].student_id = student_id
                                /\ activities[a].review_status = "approved"}

\* C5: in every committed state each student's total_approved_hours is the sum of
\* final_hours over the approved activities carrying the student's id
TotalMatchesApprovedActivities ==
    \A i \in StudentIds :
        students[i].total_approved_hours = SumFinalHours(ApprovedActivitiesOf(i))

\* C6: a call whose bytes hash to the checksum of a submission the same student
\* already has ends at once with the duplicate error carrying that submission's id;
\* no row is created, no ingest message published, no student's total changed
DuplicateSubmitRefused ==
    [][\A r \in Requests :
          (requests[r].pc = "idle" /\ requests'[r].pc # "idle")
              => LET owners == {i \in DOMAIN students :
                                   students[i].enrollment_number =
                                       requests'[r].enrollment_number}
                     existing == {s \in SubmissionIds :
                                     /\ submissions[s].student_id \in owners
                                     /\ submissions[s].file_checksum =
                                            CalculateChecksum(requests'[r].file)}
                 IN  existing # {}
                         => /\ requests'[r].pc = "done"
                            /\ ~requests'[r].result.success
                            /\ requests'[r].result.error = "Duplicate file detected"
                            /\ requests'[r].result.existing_submission_id \in existing
                            /\ UNCHANGED <<submissions, ingestTopic, students>>]_vars

\* a call was answered with the duplicate error and the id of a stored submission
DuplicateReported ==
    \E r \in Requests :
        /\ requests[r].result.error = ErrDuplicate
        /\ requests[r].result.existing_submission_id \in SubmissionIds
        /\ submissions[requests[r].result.existing_submission_id].file_checksum =
               CalculateChecksum(requests[r].file)

\* C7: every certificate.ingest message on the bus references a submission row that
\* is committed
IngestMessagesReferenceCommittedRows ==
    \A m \in 1..Len(ingestTopic) : ingestTopic[m].submission_id \in SubmissionIds

\* an ingest message is on the bus, not yet handled, for a committed queued row
IngestMessageWaiting ==
    /\ offsets.ingest < Len(ingestTopic)
    /\ LET id == ingestTopic[Len(ingestTopic)].submission_id
       IN  id \in SubmissionIds /\ submissions[id].status = "queued"

\* C8: a call answered with the queue-failure error carries the submission's id, and
\* that submission is failed with the message "Failed to publish to processing queue"
PublishFailureMarksFailed ==
    \A r \in Requests :
        requests[r].result.error = "Failed to queue file for processing"
            => LET id == requests[r].result.submission_id
               IN  /\ ~requests[r].result.success
                   /\ id \in SubmissionIds
                   /\ submissions[id].status = "failed"
                   /\ submissions[id].error_message.text =
                          "Failed to publish to processing queue"

\* a call met a failed publication after its row was committed
PublishFailed ==
    \E r \in Requests :
        /\ requests[r].pc = "done"
        /\ requests[r].result.error = ErrQueue
        /\ Happened("fault", requests[r].result.submission_id)

\* C9: a call for an enrollment number no student is registered under ends at once
\* with the student-not-found error; no student row, no submission row, no object
\* and no message is created
UnknownEnrollmentHasNoEffect ==
    [][\A r \in Requests :
          (requests[r].pc = "idle" /\ requests'[r].pc # "idle")
              => ((\A i \in DOMAIN students :
                      students[i].enrollment_number # requests'[r].enrollment_number)
                      => /\ requests'[r].pc = "done"
                         /\ ~requests'[r].result.success
                         /\ requests'[r].result.error = "Student not found or invalid"
                         /\ UNCHANGED <<students, submissions, objectStore, ingestTopic,
                                        ocrTopic, metadataTopic>>)]_vars

\* a call for an unregistered enrollment number was answered
UnknownEnrollmentAnswered ==
    \E r \in Requests :
        /\ requests[r].pc = "done"
        /\ requests[r].enrollment_number \notin
               {students[i].enrollment_number : i \in DOMAIN students}
        /\ requests[r].result.error = ErrStudentNotFound

\* C10: after the OCR worker has found the extracted participant name not to match
\* the student's, the submission is failed with the mismatch message and no
\* certificate.metadata message exists for it
MismatchEndsFailed ==
    \A s \in SubmissionIds :
        Happened("mismatch", s)
            => /\ submissions[s].status = "failed"
               /\ submissions[s].error_message.text =
                      "Certificate participant '{participant}' does not match student '{student}' who submitted the file"
               /\ \A m \in 1..Len(metadataTopic) : metadataTopic[m].submission_id # s

\* C11: after the OCR worker has rejected a submission for a name mismatch, the
\* certificate_metadata row written for that submission is committed
MismatchKeepsMetadataRow ==
    \A s \in SubmissionIds :
        Happened("mismatch", s)
            => \E m \in 1..Len(metadataRows) : metadataRows[m].submission_id = s

\* C12: when the metadata worker has handled a message for which the LLM returned
\* a category of the catalog, the submission has an activity row with that
\* category, the computed hours and review_status pending_review, and its committed
\* status is pending_review
CategorizedEndsPendingReview ==
    \A s \in SubmissionIds :
        Happened("categorized", s)
            => /\ \E a \in ActivitiesOf(s) :
                      /\ activities[a].category_id \in DOMAIN Catalog
                      /\ activities[a].review_status = "pending_review"
               /\ submissions[s].status = "pending_review"

\* C13: when the categorization reply names no category or one outside the catalog,
\* the submission is failed with the reply's reasoning as error message and has no
\* activity row
NoCategoryFailsWithReasoning ==
    \A s \in SubmissionIds :
        Happened("no_category", s)
            => /\ submissions[s].status = "failed"
               /\ submissions[s].error_message.text = "{reasoning}"
               /\ ActivitiesOf(s) = {}

\* C14: the calculated_hours of every activity the metadata worker stored is at most
\* the max_total_hours of the activity's category
CalculatedHoursWithinMax ==
    \A a \in 1..Len(activities) :
        activities[a].calculated_hours <= Catalog[activities[a].category_id].max_total_hours

\* C15: every approved activity has 0 <= final_hours <= max_total_hours of its
\* final category, override hours and override category included
ApprovedHoursWithinFinalCategoryMax ==
    \A a \in 1..Len(activities) :
        activities[a].review_status = "approved"
            => /\ activities[a].final_hours >= 0
               /\ activities[a].final_category_id \in DOMAIN Catalog
               /\ activities[a].final_hours <=
                      Catalog[activities[a].final_category_id].max_total_hours

\* C16: once an activity is approved its final_category_id and final_hours are set
\* and no later approve or reject call changes them
ApprovedFinalValuesFixed ==
    [][\A a \in 1..Len(activities) :
          activities[a].review_status = "approved"
              => /\ activities[a].final_category_id # NONE
                 /\ activities[a].final_hours # NONE
                 /\ activities'[a].final_category_id = activities[a].final_category_id
                 /\ activities'[a].final_hours = activities[a].final_hours]_vars

\* C17: the commit of a successful approve leaves the activity with the override
\* category, else its category_id, and the override hours, else its
\* calculated_hours, the activity and the submission approved, and the student's
\* total_approved_hours larger by exactly final_hours
ApproveAppliesFinalValues ==
    [][\A v \in Reviews :
          (reviews[v].pc = "flushed" /\ reviews'[v].pc = "done" /\ reviews[v].kind = "approve")
              => LET call == reviews[v]
                     s == call.submission_id
                     a == CHOOSE x \in ActivitiesOf(s) : \A y \in ActivitiesOf(s) : x <= y
                     student == submissions[s].student_id
                 IN  /\ reviews'[v].result.success
                     /\ activities'[a].final_category_id =
                            (IF call.final_category_id # NONE THEN call.final_category_id
                             ELSE activities[a].category_id)
                     /\ activities'[a].final_hours =
                            (IF call.final_hours # NONE THEN call.final_hours
                             ELSE activities[a].calculated_hours)
                     /\ activities'[a].review_status = "approved"
                     /\ submissions'[s].status = "approved"
                     /\ students'[student].total_approved_hours =
                            students[student].total_approved_hours + activities'[a].final_hours]_vars

\* C18: the commit of a successful reject leaves the submission's activity with
\* review_status rejected and the submission rejected, and changes no student's
\* total_approved_hours
RejectMarksActivityRejected ==
    [][\A v \in Reviews :
          (reviews[v].pc = "flushed" /\ reviews'[v].pc = "done" /\ reviews[v].kind = "reject")
              => LET s == reviews[v].submission_id
                 IN  /\ reviews'[v].result.success
                     /\ \A a \in ActivitiesOf(s) : activities'[a].review_status = "rejected"
                     /\ submissions'[s].status = "rejected"
                     /\ UNCHANGED students]_vars

\* C19: an approve or reject call for a submission whose status is not
\* pending_review ends at once with an error; the submission, the activities and
\* the students' totals are unchanged
ReviewOfSettledSubmissionRefused ==
    [][\A v \in Reviews :
          (/\ reviews[v].pc = "idle"
           /\ reviews'[v].pc # "idle"
           /\ reviews'[v].submission_id \in SubmissionIds
           /\ submissions[reviews'[v].submission_id].status # "pending_review")
              => /\ reviews'[v].pc = "done"
                 /\ ~reviews'[v].result.success
                 /\ reviews'[v].result.error # ""
                 /\ UNCHANGED <<submissions, activities, students>>]_vars

\* a reject call was refused because the submission had already been reviewed
SettledSubmissionRefused ==
    \E v \in Reviews :
        /\ reviews[v].pc = "done"
        /\ reviews[v].kind = "reject"
        /\ reviews[v].result.error = "Cannot reject submission with status: {status}"
        /\ submissions[reviews[v].submission_id].status \in {"approved", "rejected"}

\* C20: an approve call that supplies final_hours or final_category_id without
\* override_reason ends at once with the override_reason error; the submission,
\* the activities and the students' totals are unchanged
OverrideWithoutReasonRefused ==
    [][\A v \in Reviews :
          (/\ reviews[v].pc = "idle"
           /\ reviews'[v].pc # "idle"
           /\ reviews'[v].kind = "approve"
           /\ (reviews'[v].final_hours # NONE \/ reviews'[v].final_category_id # NONE)
           /\ ~reviews'[v].override_reason)
              => /\ reviews'[v].pc = "done"
                 /\ ~reviews'[v].result.success
                 /\ reviews'[v].result.error =
                        "override_reason is required when overriding hours or category"
                 /\ UNCHANGED <<submissions, activities, students>>]_vars

\* an override without a reason was refused for a submission that waits for review
OverrideWithoutReasonAnswered ==
    \E v \in Reviews :
        /\ reviews[v].pc = "done"
        /\ reviews[v].kind = "approve"
        /\ reviews[v].final_hours # NONE
        /\ ~reviews[v].override_reason
        /\ reviews[v].result.error =
               "override_reason is required when overriding hours or category"
        /\ reviews[v].submission_id \in SubmissionIds
        /\ submissions[reviews[v].submission_id].status = "pending_review"

ApproveDefaultsEqualExplicit ==
    [][\A v \in Reviews :
          (/\ reviews[v].pc = "flushed"
           /\ reviews'[v].pc = "done"
           /\ reviews[v].kind = "approve"
           /\ \/ reviews[v].final_hours = NONE /\ reviews[v].final_category_id = NONE
              \/ /\ reviews[v].final_hours = reviews[v].loaded.calculated_hours
                 /\ reviews[v].final_category_id = reviews[v].loaded.category_id)
              => LET call == reviews[v]
                     s == call.submission_id
                     student == submissions[s].student_id
                 IN  /\ \A a \in ActivitiesOf(s) :
                            /\ activities'[a].final_hours = call.loaded.calculated_hours
                            /\ activities'[a].final_category_id = call.loaded.category_id
                            /\ activities'[a].review_status = "approved"
                     /\ submissions'[s].status = "approved"
                     /\ students'[student].total_approved_hours =
                            call.total_read + call.loaded.calculated_hours]_vars

\* one submission was approved without overrides and another with the calculated
\* values supplied explicitly, and their activities ended with equal final values
BothApprovalFormsCommitted ==
    \E v, w \in Reviews :
        /\ reviews[v].pc = "done" /\ reviews[v].result.success
        /\ reviews[w].pc = "done" /\ reviews[w].result.success
        /\ reviews[v].kind = "approve" /\ reviews[w].kind = "approve"
        /\ reviews[v].final_hours = NONE /\ reviews[v].final_category_id = NONE
        /\ reviews[w].final_hours = reviews[w].loaded.calculated_hours
        /\ reviews[w].final_category_id = reviews[w].loaded.category_id
        /\ reviews[v].submission_id # reviews[w].submission_id
        /\ \A a \in ActivitiesOf(reviews[v].submission_id),
              b \in ActivitiesOf(reviews[w].submission_id) :
              /\ activities[a].final_hours = activities[b].final_hours
              /\ activities[a].final_category_id = activities[b].final_category_id
              /\ activities[a].review_status = "approved"
              /\ activities[b].review_status = "approved"

\* C23: every committed submission whose status is failed, pending_review, approved
\* or rejected has processing_completed_at set
SettledHasCompletionTime ==
    \A s \in SubmissionIds :
        submissions[s].status \in {"failed", "pending_review", "approved", "rejected"}
            => submissions[s].processing_completed_at

\* C24: when a step of the ingest worker between the download and the publication
\* raises an exception, the message's submission is committed as failed, and the
\* worker has moved on to the next message
IngestExceptionMarksFailed ==
    [][\A id \in SubmissionIds :
          (<<"ingest_raised", id>> \notin history /\ <<"ingest_raised", id>> \in history')
              => /\ submissions'[id].status = "failed"
                 /\ offsets'.ingest = offsets.ingest + 1]_vars

\* the worker handled two messages in a row, each ended by an exception, and both
\* submissions are failed
IngestWentOnAfterException ==
    /\ offsets.ingest = 2
    /\ \E s, u \in SubmissionIds :
          /\ s # u
          /\ <<"ingest_raised", s>> \in history /\ <<"ingest_raised", u>> \in history
          /\ submissions[s].status = "failed" /\ submissions[u].status = "failed"

\* C25: of two finished intake calls of one student with the same bytes, where one
\* created the submission and the other's upload did not fail, the other created
\* none and was answered with the duplicate error, and at most one
\* certificate.ingest message names the file
ConcurrentDuplicateReportedAsDuplicate ==
    \A r, q \in Requests :
        (/\ r # q
         /\ requests[r].pc = "done" /\ requests[q].pc = "done"
         /\ requests[r].student_id # 0
         /\ requests[r].student_id = requests[q].student_id
         /\ requests[r].file = requests[q].file
         /\ requests[r].submission_id \in SubmissionIds
         /\ requests[q].result.error # ErrUpload)
            => /\ requests[q].submission_id = 0
               /\ requests[q].result.error = ErrDuplicate
               /\ Cardinality({i \in 1..Len(ingestTopic) :
                      ingestTopic[i].s3_key = submissions[requests[r].submission_id].s3_key}) <= 1

\* C26: no step of any interleaving of approve and reject calls makes a student's
\* total_approved_hours negative or smaller than it was
TotalNeverDecreases ==
    [][\A i \in StudentIds :
          /\ students'[i].total_approved_hours >= 0
          /\ students'[i].total_approved_hours >= students[i].total_approved_hours]_vars

\* C27: as long as no termination signal has arrived, every stage worker whose
\* thread is still in its message loop keeps its bus subscription open, whichever
\* of the other workers have returned or raised: the supervisor shuts none down
RunningWorkersKeepSubscription ==
    manager.signals = 0
        => \A w \in Workers :
              (threads[w].state = "running" /\ threads[w].consumer # "none")
                  => threads[w].consumer = "open"

\* one worker's loop has ended by raising, the supervisor still waits, and another
\* worker is in its loop on an open subscription with a message to handle
WorkerConsumesAfterAnotherEnded ==
    /\ manager.signals = 0
    /\ manager.pc = "waiting"
    /\ \E w \in Workers \ {"metadata"} : threads[w].state = "raised"
    /\ Consuming("metadata")
    /\ offsets.metadata < Len(metadataTopic)

\* C28: every call of shutdown, the first and the later ones, leaves no bus
\* subscription open and returns
ShutdownClosesAndReturns ==
    [][manager'.shutdown_calls # manager.shutdown_calls
          => /\ \A w \in Workers : threads'[w].consumer # "open"
             /\ manager'.last_shutdown = "returned"]_vars

\* the match rule on the normalized names
MatchRule(extracted_participant, student_name) ==
    LET common == Parts(normalize_name(extracted_participant))
                      \cap Parts(normalize_name(student_name))
    IN  \/ normalize_name(extracted_participant) = normalize_name(student_name)
        \/ Cardinality(common) >= 2
        \/ Cardinality(common) = 1 /\ \A p \in common : Len(p) > 3

HandledMessageMadeProgress ==
    \A id \in SubmissionIds :
        /\ Happened("ingest", id)
              => \/ \E i \in 1..Len(ocrTopic) : ocrTopic[i].submission_id = id
                 \/ submissions[id].status = "failed"
        /\ (Happened("ocr", id) /\ ~(ocrTxn.open /\ ocrTxn.submission_id = id))
              => \/ \E i \in 1..Len(metadataTopic) : metadataTopic[i].submission_id = id
                 \/ submissions[id].status = "failed"
        /\ Happened("metadata", id)
              => submissions[id].status \in {"pending_review", "failed"}

\* C31: every certificate.ocr message on the bus names a committed
\* certificate_ocr_texts row and every certificate.metadata message a committed
\* certificate_metadata row, each of the message's submission
StageMessagesReferenceCommittedRows ==
    /\ \A m \in 1..Len(ocrTopic) :
          \E t \in 1..Len(ocrTexts) :
              /\ ocrTexts[t].id = ocrTopic[m].ocr_text_id
              /\ ocrTexts[t].submission_id = ocrTopic[m].submission_id
    /\ \A m \in 1..Len(metadataTopic) :
          \E t \in 1..Len(metadataRows) :
              /\ metadataRows[t].id = metadataTopic[m].metadata_id
              /\ metadataRows[t].submission_id = metadataTopic[m].submission_id

OcrTextsOf(submission_id) ==
    {t \in 1..Len(ocrTexts) : ocrTexts[t].submission_id = submission_id}

\* C32: in every reachable state each submission has at most one
\* certificate_ocr_texts row, also after the ingest worker was handed a message
\* again
OneOcrTextPerSubmission ==
    \A s \in SubmissionIds : Cardinality(OcrTextsOf(s)) <= 1

\* the certificate.ingest message of a submission that had its OCR text was
\* delivered again and handled, and the submission still has that one row
RedeliveredIngestHandled ==
    /\ offsets.redelivered > 0
    /\ offsets.ingest >= 1
    /\ Happened("ingest_raised", 1)
    /\ Cardinality(OcrTextsOf(1)) = 1

\* C33: a call of a student whose earlier submissions of the same bytes have all
\* ended failed is not refused as a duplicate: it goes on to create a submission
\* (or ends with the upload error)
ResubmitAfterFailureAccepted ==
    [][\A r \in Requests :
          (requests[r].pc = "idle" /\ requests'[r].pc # "idle")
              => LET owners == {i \in DOMAIN students :
                                   students[i].enrollment_number =
                                       requests'[r].enrollment_number}
                     existing == {s \in SubmissionIds :
                                     /\ submissions[s].student_id \in owners
                                     /\ submissions[s].file_checksum =
                                            CalculateChecksum(requests'[r].file)}
                 IN  (existing # {} /\ \A s \in existing : submissions[s].status = "failed")
                         => /\ requests'[r].result.error # "Duplicate file detected"
                            /\ \/ requests'[r].pc = "uploaded"
                               \/ requests'[r].result.error = "Failed to upload file to storage"]_vars

\* C34: the insert of a call whose student has no submission of the bytes, while
\* a different student has one, succeeds: a new submission of the call's student
\* is committed in status queued
SameFileOfOtherStudentAccepted ==
    [][\A r \in Requests :
          (/\ requests[r].pc = "uploaded"
           /\ requests'[r].pc # "uploaded"
           /\ \A s \in SubmissionIds :
                 submissions[s].file_checksum = CalculateChecksum(requests[r].file)
                     => submissions[s].student_id # requests[r].student_id
           /\ \E s \in SubmissionIds :
                 submissions[s].file_checksum = CalculateChecksum(requests[r].file))
              => /\ requests'[r].pc = "committed"
                 /\ Len(submissions') = Len(submissions) + 1
                 /\ submissions'[Len(submissions')].student_id = requests[r].student_id
                 /\ submissions'[Len(submissions')].file_checksum =
                        CalculateChecksum(requests[r].file)
                 /\ submissions'[Len(submissions')].status = "queued"]_vars

\* C35: after the OCR worker has handled a message for which extract_fields
\* returned the empty fields (the LLM call failed or its reply was malformed), a
\* certificate_metadata row of the submission with null fields is committed and
\* the submission is failed
EmptyReplyStoresNullsAndFails ==
    \A s \in SubmissionIds :
        Happened("empty_fields", s)
            => /\ \E m \in 1..Len(metadataRows) :
                      /\ metadataRows[m].submission_id = s
                      /\ metadataRows[m].participant_name = NULL
                      /\ metadataRows[m].event_name = NULL
                      /\ metadataRows[m].numeric_hours = NONE
               /\ submissions[s].status = "failed"

\* C36: in every committed state every submission whose status is failed carries
\* a non-empty error_message
FailedHasErrorMessage ==
    \A s \in SubmissionIds :
        submissions[s].status = "failed" => submissions[s].error_message.text # ""

\* C37: in no committed state does a submission whose status is failed have an
\* extracted_activities row with review_status pending_review
FailedHasNoPendingActivity ==
    \A s \in SubmissionIds :
        submissions[s].status = "failed"
            => \A a \in ActivitiesOf(s) : activities[a].review_status # "pending_review"

\* C38: in every committed state, for every submission and each of its activities,
\* the submission is approved exactly when the activity's review_status is
\* approved, and rejected exactly when it is rejected
StatusAgreesWithReviewStatus ==
    \A s \in SubmissionIds :
        \A a \in ActivitiesOf(s) :
            /\ submissions[s].status = "approved" <=> activities[a].review_status = "approved"
            /\ submissions[s].status = "rejected" <=> activities[a].review_status = "rejected"

ApprovedOfStudentSubmissions(student_id) ==
    {a \in 1..Len(activities) :
        /\ activities[a].review_status = "approved"
        /\ activities[a].submission_id \in SubmissionIds
        /\ submissions[activities[a].submission_id].student_id = student_id}

\* C39: of the review calls made for one submission at most one is applied, and
\* a student's total_approved_hours holds no more than the final_hours of the
\* approved activities of the student's submissions, each counted once
AtMostOneReviewApplied ==
    /\ \A s \in SubmissionIds :
          Cardinality({v \in Reviews : /\ reviews[v].pc = "done"
                                       /\ reviews[v].result.success
                                       /\ reviews[v].submission_id = s}) <= 1
    /\ \A i \in StudentIds :
          students[i].total_approved_hours <= SumFinalHours(ApprovedOfStudentSubmissions(i))

====
